---- MODULE Spec2Model ----
(***************************************************************************)
(* Model of analytics/reports/views.py: the three analytics endpoints      *)
(* sales_analytics, inventory_analytics and financial_analytics.           *)
(*                                                                         *)
(* One behaviour is one request: a snapshot of the store and the endpoint  *)
(* that is called, then the handler's steps in source order (parse the     *)
(* parameters, run each store query, compute, respond).  Every step that   *)
(* can raise (strptime, cursor.execute) has an exception outcome, which    *)
(* the handler's `except Exception` turns into the HTTP 500 response.      *)
(*                                                                         *)
(* Numbers: money and quantities are integers; a float quotient is kept    *)
(* exactly, as the record [num, den].  Response fields that no checked     *)
(* property reads (the plotly figures, top performers, payment methods,    *)
(* avg_transaction_value, top_selling_products, inventory_value) are left  *)
(* out of the response records.                                            *)
(***************************************************************************)
EXTENDS Integers, Sequences, FiniteSets, TLC

VARIABLES
    endpoint,       \* the view function the request is routed to
    sales,          \* the `sales` table (rows joined with users)
    pc,             \* position of the handler
    start_date,     \* parsed start_date (a date), line 38/40, 337/339
    end_date,       \* parsed end_date (a date), line 33/35, 332/334
    group_by,       \* request.GET.get('group_by', 'day'), line 29
    df,             \* sales: rows of the first query; inventory: product rows
    prev_start,     \* line 90
    prev_end,       \* line 91
    prev_revenue,   \* line 102
    period_stats,   \* line 120-124
    alert_data,     \* line 280-287
    sales_df,       \* line 371
    purchase_df,    \* line 372
    financial_df,   \* line 376-397
    responses,      \* the Response objects returned, in order
    failed          \* which kind of exception was raised, "none" if none

vars == <<endpoint, sales, pc, start_date, end_date, group_by, df, prev_start,
          prev_end, prev_revenue, period_stats, alert_data, sales_df,
          purchase_df, financial_df, responses, failed>>

(***************************************************************************)
(* Calendar.  A date is its number of days since 2023-01-01 (a Sunday).    *)
(***************************************************************************)
IsLeap(y) == (y % 4 = 0 /\ y % 100 # 0) \/ y % 400 = 0

DaysInYear(y) == IF IsLeap(y) THEN 366 ELSE 365

DaysInMonth(y, m) ==
    IF m = 2 THEN (IF IsLeap(y) THEN 29 ELSE 28)
    ELSE IF m \in {4, 6, 9, 11} THEN 30 ELSE 31

RECURSIVE DaysBeforeMonth(_, _)
DaysBeforeMonth(y, m) ==
    IF m <= 1 THEN 0 ELSE DaysBeforeMonth(y, m - 1) + DaysInMonth(y, m - 1)

RECURSIVE DaysBeforeYear(_)
DaysBeforeYear(y) ==
    IF y <= 2023 THEN 0 ELSE DaysBeforeYear(y - 1) + DaysInYear(y - 1)

\* datetime.date(y, m, d) as a day number
ToOrdinal(y, m, d) == DaysBeforeYear(y) + DaysBeforeMonth(y, m) + d - 1

RECURSIVE YearFrom(_, _)
YearFrom(y, n) == IF n < DaysInYear(y) THEN y ELSE YearFrom(y + 1, n - DaysInYear(y))

YearOf(n) == YearFrom(2023, n)

\* tm_yday - 1: days since 1 January of the date's year
YearDay(n) == n - DaysBeforeYear(YearOf(n))

MonthOf(n) ==
    CHOOSE m \in 1..12 :
        /\ DaysBeforeMonth(YearOf(n), m) <= YearDay(n)
        /\ YearDay(n) < DaysBeforeMonth(YearOf(n), m) + DaysInMonth(YearOf(n), m)

DayOf(n) == YearDay(n) - DaysBeforeMonth(YearOf(n), MonthOf(n)) + 1

\* tm_wday with Sunday = 0
WeekDay(n) == n % 7

\* strftime('%U'): week of the year, weeks starting on Sunday, the days before
\* the year's first Sunday being week 0
WeekOfYearU(n) == (YearDay(n) + 7 - WeekDay(n)) \div 7

\* the text of a date parameter is its three fields; NoParam is an absent one
NoParam == <<>>

\* datetime.strptime(text, '%Y-%m-%d') accepts the text
ValidDateText(t) ==
    /\ Len(t) = 3
    /\ t[2] \in 1..12
    /\ t[3] \in 1..DaysInMonth(t[1], t[2])

\* datetime.strptime(text, '%Y-%m-%d').date()
StrpDate(t) == ToOrdinal(t[1], t[2], t[3])

(***************************************************************************)
(* Bounds and input domains                                                *)
(***************************************************************************)
MaxSales == 2

MaxProducts == 3

\* the dates on which the store holds rows: a Saturday, the Sunday that ends
\* 2023 and the Monday that starts 2024
Days == {ToOrdinal(2023, 12, 30), ToOrdinal(2023, 12, 31), ToOrdinal(2024, 1, 1)}

\* datetime.now().date()
Today == ToOrdinal(2024, 1, 1)

\* a timestamp is a date and a time of day: 0 is 00:00:00, 1 any later time
TimesOfDay == {0, 1}

DateParams == {NoParam, <<2023, 12, 31>>, <<2024, 1, 1>>, <<2024, 2, 30>>}

GroupByParams == {"day", "week", "month", "quarter"}

Totals == {1, 2}

Customers == {"c1", "c2"}

Users == {"u1", "u2"}

PaymentMethods == {"CASH", "CARD"}

StockLevels == {0, 1, 2}

MinStockLevels == {0, 1}

SoldQuantities == {0, 3}

Amounts == {40, 100}

WindowSales ==
    [created_at : [date : Days, tod : TimesOfDay], total : Totals,
     customer_id : {"c1"}, user_id : {"u1"}, payment_method : {"CASH"},
     payment_status : {"COMPLETED", "PENDING"}]

CustomerSales ==
    [created_at : [date : Days \ {ToOrdinal(2024, 1, 1)}, tod : {1}], total : {1},
     customer_id : Customers, user_id : Users, payment_method : PaymentMethods,
     payment_status : {"COMPLETED"}]

RECURSIVE SubsetsUpTo(_, _)
SubsetsUpTo(U, k) ==
    IF k = 0 THEN {{}}
    ELSE LET P == SubsetsUpTo(U, k - 1) IN P \cup {S \cup {x} : S \in P, x \in U}

\* the snapshots of the sales table a request may find
SalesStores == SubsetsUpTo(WindowSales, MaxSales) \cup SubsetsUpTo(CustomerSales, MaxSales)

(***************************************************************************)
(* Values                                                                  *)
(***************************************************************************)
Null == "null"

\* a / b in floating point, kept exact as the fraction; with b = 0 the
\* division raises ZeroDivisionError, which Raises tells
Divide(a, b) == [num |-> a, den |-> b]

Raises(q) == q.den = 0

Zero == [num |-> 0, den |-> 1]

RatEq(p, q) == p.num * q.den = q.num * p.den

RECURSIVE SumField(_, _)
SumField(S, f) ==
    IF S = {} THEN 0
    ELSE LET r == CHOOSE x \in S : TRUE IN r[f] + SumField(S \ {r}, f)

(***************************************************************************)
(* sales_analytics                                                         *)
(***************************************************************************)
DefaultSalesDays == 30

\* a timestamp compared with a date parameter: the date is its midnight
TsGe(ts, d) == ts.date >= d

TsLe(ts, d) == ts.date < d \/ (ts.date = d /\ ts.tod = 0)

TsLt(ts, d) == ts.date < d

\* WHERE s.created_at >= %s AND s.created_at <= %s AND s.payment_status = 'COMPLETED'
CurrentWhere(s, sd, ed) ==
    /\ TsGe(s.created_at, sd)
    /\ TsLe(s.created_at, ed)
    /\ s.payment_status = "COMPLETED"

\* the first query: GROUP BY DATE(s.created_at), u.id, s.payment_method.
\* The rows are kept as a set: ORDER BY sale_date DESC fixes only their order,
\* and every later step (sum, groupby) is independent of it.
SalesQuery(tbl, sd, ed) ==
    LET matched == {s \in tbl : CurrentWhere(s, sd, ed)}
        keys == {<<s.created_at.date, s.user_id, s.payment_method>> : s \in matched}
        group(k) == {s \in matched : <<s.created_at.date, s.user_id, s.payment_method>> = k}
    IN  {[sale_date |-> k[1],
          transaction_count |-> Cardinality(group(k)),
          total_revenue |-> SumField(group(k), "total"),
          unique_customers |-> Cardinality({s.customer_id : s \in group(k)}),
          salesperson |-> k[2],
          payment_method |-> k[3]] : k \in keys}

\* mutant: the previous window closed at its end, created_at <= %s
PreviousWhereInclusive(s, ps, pe) ==
    /\ TsGe(s.created_at, ps)
    /\ TsLe(s.created_at, pe)
    /\ s.payment_status = "COMPLETED"

\* WHERE created_at >= %s AND created_at < %s AND payment_status = 'COMPLETED'
PreviousWhere(s, ps, pe) ==
    /\ TsGe(s.created_at, ps)
    /\ TsLt(s.created_at, pe)
    /\ s.payment_status = "COMPLETED"

\* the second query: SELECT SUM(total); the column is <<>> for NULL (no rows)
PrevRevenueQuery(tbl, ps, pe) ==
    LET matched == {s \in tbl : PreviousWhere(s, ps, pe)}
    IN  IF matched = {} THEN <<>> ELSE <<SumField(matched, "total")>>

\* float(prev_result[0]) if prev_result[0] else 0
PrevRevenue(result) == IF result = <<>> \/ result[1] = 0 THEN 0 ELSE result[1]

\* mutant: the ratio of the totals instead of the relative change
GrowthRateOfTotals(total_revenue, prev) ==
    IF prev > 0 THEN Divide(total_revenue * 100, prev) ELSE Zero

\* ((total_revenue - prev_revenue) / prev_revenue * 100) if prev_revenue > 0 else 0
GrowthRate(total_revenue, prev) ==
    IF prev > 0 THEN Divide((total_revenue - prev) * 100, prev) ELSE Zero

\* df['sale_date'].dt.strftime(...) under the branch of group_by
PeriodKey(gb, d) ==
    IF gb = "week" THEN <<YearOf(d), "W", WeekOfYearU(d)>>
    ELSE IF gb = "month" THEN <<YearOf(d), MonthOf(d)>>
    ELSE <<YearOf(d), MonthOf(d), DayOf(d)>>

\* lines 107-117: df['period'] = df['sale_date'].dt.strftime(...)
WithPeriod(rows, gb) == {r @@ ("period" :> PeriodKey(gb, r.sale_date)) : r \in rows}

\* df.groupby('period').agg({... 'sum'}).reset_index()
PeriodStats(rows) ==
    LET periods == {r.period : r \in rows}
        group(p) == {r \in rows : r.period = p}
    IN  {[period |-> p,
          total_revenue |-> SumField(group(p), "total_revenue"),
          transaction_count |-> SumField(group(p), "transaction_count"),
          unique_customers |-> SumField(group(p), "unique_customers")] : p \in periods}

EmptySalesResponse ==
    [status |-> 200,
     body |-> [total_revenue |-> 0, total_transactions |-> 0, growth_rate |-> Zero]]

SalesResponse(rows, growth) ==
    [status |-> 200,
     body |-> [total_revenue |-> SumField(rows, "total_revenue"),
               total_transactions |-> SumField(rows, "transaction_count"),
               growth_rate |-> growth]]

\* mutant: the exception is swallowed and the zeroed report is returned
DegradedResponse(ep, e) == EmptySalesResponse

\* except Exception as e: Response({'error': ...}, status=500)
ErrorResponse(ep, e) == [status |-> 500, body |-> [error |-> <<ep, e>>]]

Raise(e) ==
    /\ responses' = Append(responses, ErrorResponse(endpoint, e))
    /\ failed' = e
    /\ pc' = "done"

\* lines 32-40 and 331-339: end_date is parsed first, then start_date
ParseDates(ed_text, sd_text, default_days) ==
    IF ed_text # NoParam /\ ~ValidDateText(ed_text) THEN [ok |-> FALSE]
    ELSE LET ed == IF ed_text = NoParam THEN Today ELSE StrpDate(ed_text)
         IN  IF sd_text # NoParam /\ ~ValidDateText(sd_text) THEN [ok |-> FALSE]
             ELSE [ok |-> TRUE, end_date |-> ed,
                   start_date |-> IF sd_text = NoParam THEN ed - default_days
                                  ELSE StrpDate(sd_text)]

SalesParse ==
    /\ endpoint = "sales" /\ pc = "start"
    /\ \E sd_text \in DateParams, ed_text \in DateParams, gb \in GroupByParams :
          LET parsed == ParseDates(ed_text, sd_text, DefaultSalesDays)
          IN  IF ~parsed.ok
              THEN /\ Raise("ValueError")
                   /\ UNCHANGED <<start_date, end_date, group_by>>
              ELSE /\ start_date' = parsed.start_date
                   /\ end_date' = parsed.end_date
                   /\ group_by' = gb
                   /\ pc' = "query1"
                   /\ UNCHANGED <<responses, failed>>
    /\ UNCHANGED <<endpoint, sales, df, prev_start, prev_end, prev_revenue,
                   period_stats, alert_data, sales_df, purchase_df, financial_df>>

SalesQuery1 ==
    /\ endpoint = "sales" /\ pc = "query1"
    /\ \E ok \in BOOLEAN :
          IF ~ok
          THEN /\ Raise("DatabaseError")
               /\ UNCHANGED <<df, prev_start, prev_end>>
          ELSE LET rows == SalesQuery(sales, start_date, end_date)
               IN  /\ df' = rows
                   /\ failed' = failed
                   /\ IF rows = {}
                      THEN /\ responses' = Append(responses, EmptySalesResponse)
                           /\ pc' = "done"
                           /\ UNCHANGED <<prev_start, prev_end>>
                      ELSE /\ prev_start' = start_date - (end_date - start_date)
                           /\ prev_end' = start_date
                           /\ pc' = "query2"
                           /\ UNCHANGED responses
    /\ UNCHANGED <<endpoint, sales, start_date, end_date, group_by, prev_revenue,
                   period_stats, alert_data, sales_df, purchase_df, financial_df>>

SalesQuery2 ==
    /\ endpoint = "sales" /\ pc = "query2"
    /\ \E ok \in BOOLEAN :
          IF ~ok
          THEN /\ Raise("DatabaseError")
               /\ UNCHANGED <<df, prev_revenue, period_stats>>
          ELSE LET prev == PrevRevenue(PrevRevenueQuery(sales, prev_start, prev_end))
                   growth == GrowthRate(SumField(df, "total_revenue"), prev)
               IN  /\ prev_revenue' = prev
                   /\ IF Raises(growth)
                      THEN /\ Raise("ZeroDivisionError")
                           /\ UNCHANGED <<df, period_stats>>
                      ELSE /\ df' = WithPeriod(df, group_by)
                           /\ period_stats' = PeriodStats(WithPeriod(df, group_by))
                           /\ responses' = Append(responses, SalesResponse(df, growth))
                           /\ pc' = "done"
                           /\ failed' = failed
    /\ UNCHANGED <<endpoint, sales, start_date, end_date, group_by, prev_start,
                   prev_end, alert_data, sales_df, purchase_df, financial_df>>

InitLocals ==
    /\ pc = "start"
    /\ start_date = Null /\ end_date = Null /\ group_by = Null
    /\ prev_start = Null /\ prev_end = Null /\ prev_revenue = Null
    /\ period_stats = {} /\ alert_data = Null
    /\ sales_df = <<>> /\ purchase_df = <<>> /\ financial_df = <<>>
    /\ responses = <<>> /\ failed = "none"

(***************************************************************************)
(* inventory_analytics                                                     *)
(***************************************************************************)
\* the rows the inventory query may return: one per ACTIVE product
ProductRows ==
    [current_stock : StockLevels, min_stock : MinStockLevels, total_sold : SoldQuantities]

InventoryResults == UNION {[1..n -> ProductRows] : n \in 0..MaxProducts}

RECURSIVE SumColumn(_, _)
SumColumn(rows, f) ==
    IF rows = <<>> THEN 0 ELSE Head(rows)[f] + SumColumn(Tail(rows), f)

IsLowStock(r) == r.current_stock <= r.min_stock

IsOutOfStock(r) == r.current_stock = 0

\* df[df['current_stock'] <= df['min_stock']].to_dict('records')
LowStockItems(rows) == SelectSeq(rows, IsLowStock)

\* df[df['current_stock'] == 0].to_dict('records')
OutOfStockItems(rows) == SelectSeq(rows, IsOutOfStock)

\* mutant: the out-of-stock count is not subtracted
NormalCountLowOnly(total_products, low, out) == total_products - low

\* total_products - len(low_stock_items) - len(out_of_stock_items)
NormalCount(total_products, low, out) == total_products - low - out

\* alert_data: the Count column of 'Low Stock', 'Out of Stock', 'Normal'
AlertData(rows) ==
    [low_stock |-> Len(LowStockItems(rows)),
     out_of_stock |-> Len(OutOfStockItems(rows)),
     normal |-> NormalCount(Len(rows), Len(LowStockItems(rows)),
                            Len(OutOfStockItems(rows)))]

\* df['current_stock'].mean()
AvgInventory(rows) == Divide(SumColumn(rows, "current_stock"), Len(rows))

\* mutant: the division without its guard
TurnoverRatioUnguarded(total_sold, avg) == Divide(total_sold * avg.den, avg.num)

\* float(total_sold / avg_inventory) if avg_inventory > 0 else 0
TurnoverRatio(total_sold, avg) ==
    IF avg.num > 0 THEN Divide(total_sold * avg.den, avg.num) ELSE Zero

EmptyInventoryResponse ==
    [status |-> 200,
     body |-> [total_products |-> 0, low_stock_items |-> <<>>,
               out_of_stock_items |-> <<>>, turnover_ratio |-> Zero]]

InventoryResponse(rows, turnover) ==
    [status |-> 200,
     body |-> [total_products |-> Len(rows),
               low_stock_items |-> LowStockItems(rows),
               out_of_stock_items |-> OutOfStockItems(rows),
               turnover_ratio |-> turnover]]

InventoryAnalytics ==
    /\ endpoint = "inventory" /\ pc = "start"
    /\ \E ok \in BOOLEAN, rows \in InventoryResults :
          IF ~ok
          THEN /\ Raise("DatabaseError")
               /\ UNCHANGED <<df, alert_data>>
          ELSE /\ df' = rows
               /\ IF rows = <<>>
                  THEN /\ responses' = Append(responses, EmptyInventoryResponse)
                       /\ pc' = "done"
                       /\ UNCHANGED <<alert_data, failed>>
                  ELSE LET turnover == TurnoverRatio(SumColumn(rows, "total_sold"),
                                                     AvgInventory(rows))
                       IN  IF Raises(turnover)
                           THEN /\ Raise("ZeroDivisionError")
                                /\ UNCHANGED alert_data
                           ELSE /\ alert_data' = AlertData(rows)
                                /\ responses' =
                                     Append(responses, InventoryResponse(rows, turnover))
                                /\ pc' = "done"
                                /\ failed' = failed
    /\ UNCHANGED <<endpoint, sales, start_date, end_date, group_by, prev_start,
                   prev_end, prev_revenue, period_stats, sales_df, purchase_df,
                   financial_df>>

(***************************************************************************)
(* financial_analytics                                                     *)
(***************************************************************************)
DefaultFinancialDays == 90

RECURSIVE SortSet(_)
SortSet(S) ==
    IF S = {} THEN <<>>
    ELSE LET m == CHOOSE x \in S : \A y \in S : x <= y
         IN  <<m>> \o SortSet(S \ {m})

\* the dates DATE(created_at) can take under WHERE created_at >= %s AND created_at <= %s
WindowDates(sd, ed) == {d \in Days : sd <= d /\ d <= ed}

\* the results a query with GROUP BY DATE(created_at) ORDER BY date may return:
\* one row per date of the window that has rows, in ascending date order
DailySeries(dates, column) ==
    UNION {{[i \in 1..Cardinality(D) |->
                [date |-> SortSet(D)[i]] @@ (column :> f[SortSet(D)[i]])] :
             f \in [D -> Amounts]} : D \in SUBSET dates}

SeqDates(rows) == {rows[i].date : i \in 1..Len(rows)}

DateColumn(rows) == [i \in 1..Len(rows) |-> rows[i].date]

\* the value of a column at a date, 0 where the series has no row (fillna(0))
ValueAt(rows, column, d) ==
    IF d \in SeqDates(rows)
    THEN (CHOOSE r \in {rows[i] : i \in 1..Len(rows)} : r.date = d)[column]
    ELSE 0

\* mutant: how='left', the keys of the left frame only
LeftJoinKeys(left, right, sorts) == DateColumn(left)

\* the date column of pd.merge(sales_df, purchase_df, on='date', how='outer'):
\* pandas >= 2.2 sorts the keys of an outer join; earlier versions emit the left
\* frame's keys in their order, then the keys found in the right frame only
OuterJoinKeys(left, right, sorts) ==
    IF sorts THEN SortSet(SeqDates(left) \cup SeqDates(right))
    ELSE DateColumn(left) \o SortSet(SeqDates(right) \ SeqDates(left))

\* lines 375-384: the merged frame's date, revenue and costs columns
MergeFrames(left, right, sorts) ==
    LET keys == IF left # <<>> /\ right # <<>> THEN OuterJoinKeys(left, right, sorts)
                ELSE IF left # <<>> THEN DateColumn(left)
                ELSE DateColumn(right)
    IN  [i \in 1..Len(keys) |->
            [date |-> keys[i],
             revenue |-> ValueAt(left, "revenue", keys[i]),
             costs |-> ValueAt(right, "costs", keys[i])]]

\* financial_df['profit'].cumsum() up to row i
RECURSIVE CumSum(_, _)
CumSum(rows, i) ==
    IF i = 0 THEN 0 ELSE CumSum(rows, i - 1) + (rows[i].revenue - rows[i].costs)

\* lines 396-397: the profit and cash_flow columns
WithCashFlow(rows) ==
    [i \in 1..Len(rows) |->
        [date |-> rows[i].date, revenue |-> rows[i].revenue, costs |-> rows[i].costs,
         profit |-> rows[i].revenue - rows[i].costs,
         cash_flow |-> CumSum(rows, i)]]

\* (gross_profit / total_revenue * 100) if total_revenue > 0 else 0
ProfitMargin(gross_profit, total_revenue) ==
    IF total_revenue > 0 THEN Divide(gross_profit * 100, total_revenue) ELSE Zero

EmptyFinancialResponse ==
    [status |-> 200,
     body |-> [total_revenue |-> 0, total_costs |-> 0, gross_profit |-> 0,
               profit_margin |-> Zero, cash_flow |-> <<>>]]

FinancialResponse(rows, margin) ==
    [status |-> 200,
     body |-> [total_revenue |-> SumColumn(rows, "revenue"),
               total_costs |-> SumColumn(rows, "costs"),
               gross_profit |-> SumColumn(rows, "revenue") - SumColumn(rows, "costs"),
               profit_margin |-> margin,
               cash_flow |-> [i \in 1..Len(rows) |->
                                 [date |-> rows[i].date, cash_flow |-> rows[i].cash_flow]]]]

FinancialParse ==
    /\ endpoint = "financial" /\ pc = "start"
    /\ \E sd_text \in DateParams, ed_text \in DateParams :
          LET parsed == ParseDates(ed_text, sd_text, DefaultFinancialDays)
          IN  IF ~parsed.ok
              THEN /\ Raise("ValueError")
                   /\ UNCHANGED <<start_date, end_date>>
              ELSE /\ start_date' = parsed.start_date
                   /\ end_date' = parsed.end_date
                   /\ pc' = "query"
                   /\ UNCHANGED <<responses, failed>>
    /\ UNCHANGED <<endpoint, sales, group_by, df, prev_start, prev_end, prev_revenue,
                   period_stats, alert_data, sales_df, purchase_df, financial_df>>

\* lines 341-372: the revenue query, then the costs query, under one cursor
FinancialQueries ==
    /\ endpoint = "financial" /\ pc = "query"
    /\ \E raised \in {"none", "first", "second"},
          sales_data \in DailySeries(WindowDates(start_date, end_date), "revenue"),
          purchase_data \in DailySeries(WindowDates(start_date, end_date), "costs") :
          IF raised # "none"
          THEN /\ Raise("DatabaseError")
               /\ UNCHANGED <<sales_df, purchase_df>>
          ELSE /\ sales_df' = sales_data
               /\ purchase_df' = purchase_data
               /\ pc' = "merge"
               /\ UNCHANGED <<responses, failed>>
    /\ UNCHANGED <<endpoint, sales, start_date, end_date, group_by, df, prev_start,
                   prev_end, prev_revenue, period_stats, alert_data, financial_df>>

\* lines 374-455
FinancialMerge ==
    /\ endpoint = "financial" /\ pc = "merge"
    /\ IF sales_df = <<>> /\ purchase_df = <<>>
       THEN /\ responses' = Append(responses, EmptyFinancialResponse)
            /\ pc' = "done"
            /\ UNCHANGED <<financial_df, failed>>
       ELSE \E sorts \in BOOLEAN :
               LET rows == WithCashFlow(MergeFrames(sales_df, purchase_df, sorts))
                   total_revenue == SumColumn(rows, "revenue")
                   margin == ProfitMargin(total_revenue - SumColumn(rows, "costs"),
                                          total_revenue)
               IN  IF Raises(margin)
                   THEN /\ Raise("ZeroDivisionError")
                        /\ UNCHANGED financial_df
                   ELSE /\ financial_df' = rows
                        /\ responses' = Append(responses, FinancialResponse(rows, margin))
                        /\ pc' = "done"
                        /\ failed' = failed
    /\ UNCHANGED <<endpoint, sales, start_date, end_date, group_by, df, prev_start,
                   prev_end, prev_revenue, period_stats, alert_data, sales_df,
                   purchase_df>>

(***************************************************************************)
(* The specification                                                       *)
(***************************************************************************)
\* a request to sales_analytics finds any snapshot of the sales table; the two
\* other endpoints get their rows as query results and do not read `sales`
Init ==
    /\ InitLocals
    /\ \/ endpoint = "sales" /\ sales \in SalesStores /\ df = {}
       \/ endpoint \in {"inventory", "financial"} /\ sales = {} /\ df = <<>>

Next ==
    \/ SalesParse
    \/ SalesQuery1
    \/ SalesQuery2
    \/ InventoryAnalytics
    \/ FinancialParse
    \/ FinancialQueries
    \/ FinancialMerge

Spec == Init /\ [][Next]_vars

(***************************************************************************)
(* Properties                                                              *)
(***************************************************************************)
Reported(ep) ==
    endpoint = ep /\ pc = "done" /\ failed = "none" /\ Len(responses) = 1

\* the request returned the report computed from a non-empty row set
InventoryReported == Reported("inventory") /\ df # <<>>

FinancialReported == Reported("financial") /\ financial_df # <<>>

SalesReported == Reported("sales") /\ df # {}

\* C1: for every non-empty set of product rows the three counts of the
\* inventory status overview add up to total_products, low being the number
\* of rows with current_stock <= min_stock, out the number of rows with
\* current_stock = 0 and normal the 'Normal' count the endpoint reports.
C1_StatusCountsSumToTotal ==
    InventoryReported =>
        /\ alert_data.low_stock =
              Cardinality({i \in 1..Len(df) : df[i].current_stock <= df[i].min_stock})
        /\ alert_data.out_of_stock =
              Cardinality({i \in 1..Len(df) : df[i].current_stock = 0})
        /\ responses[1].body.total_products = Len(df)
        /\ alert_data.low_stock + alert_data.out_of_stock + alert_data.normal
              = responses[1].body.total_products

\* C1 witness: a report over rows of which some are out of stock (and low),
\* some low only and some neither.
C1_Witness ==
    /\ InventoryReported
    /\ alert_data.out_of_stock > 0
    /\ alert_data.low_stock > alert_data.out_of_stock
    /\ alert_data.low_stock < Len(df)

\* C2: the 'Normal' count equals the number of rows that are neither low-stock
\* nor out-of-stock (the complement of the union of the two sets), and is
\* never negative.
C2_NormalIsComplementOfUnion ==
    InventoryReported =>
        /\ alert_data.normal =
              Cardinality({i \in 1..Len(df) :
                              /\ ~(df[i].current_stock <= df[i].min_stock)
                              /\ df[i].current_stock # 0})
        /\ alert_data.normal >= 0

\* C3: in every financial report with data the rows are in strictly ascending
\* date order and cash_flow[i] is the sum of profit[1..i], with
\* profit = revenue - costs, in all three merge branches and whatever order
\* the outer join emits its rows in.
C3_AscendingCumulativeCashFlow ==
    FinancialReported =>
        /\ \A i \in 1..(Len(financial_df) - 1) :
              financial_df[i].date < financial_df[i + 1].date
        /\ \A i \in 1..Len(financial_df) :
              /\ financial_df[i].profit = financial_df[i].revenue - financial_df[i].costs
              /\ financial_df[i].cash_flow =
                    (IF i = 1 THEN 0 ELSE financial_df[i - 1].cash_flow)
                    + financial_df[i].profit
              /\ responses[1].body.cash_flow[i].cash_flow = financial_df[i].cash_flow

\* C4: the merged financial series has exactly one row for each date in the
\* union of the revenue dates and the cost dates; a date of the revenue series
\* only has costs = 0 and a date of the cost series only has revenue = 0, also
\* when one series is empty.  Revenue {d: 100} and costs {d + 1: 40} give the
\* rows (d, 100, 0, 100, 100) and (d + 1, 0, 40, -40, 60).
C4_MergeIsFullOuterJoin ==
    FinancialReported =>
        LET rev == {sales_df[i] : i \in 1..Len(sales_df)}
            cst == {purchase_df[i] : i \in 1..Len(purchase_df)}
            dates == {r.date : r \in rev} \cup {r.date : r \in cst}
        IN  /\ {financial_df[i].date : i \in 1..Len(financial_df)} = dates
            /\ Len(financial_df) = Cardinality(dates)
            /\ \A i \in 1..Len(financial_df) :
                  LET row == financial_df[i]
                  IN  /\ \A r \in rev : r.date = row.date => row.revenue = r.revenue
                      /\ \A r \in cst : r.date = row.date => row.costs = r.costs
                      /\ (\A r \in rev : r.date # row.date) => row.revenue = 0
                      /\ (\A r \in cst : r.date # row.date) => row.costs = 0
            /\ \A d \in Days :
                  (/\ sales_df = <<[date |-> d, revenue |-> 100]>>
                   /\ purchase_df = <<[date |-> d + 1, costs |-> 40]>>)
                  => financial_df =
                        <<[date |-> d, revenue |-> 100, costs |-> 0,
                           profit |-> 100, cash_flow |-> 100],
                          [date |-> d + 1, revenue |-> 0, costs |-> 40,
                           profit |-> -40, cash_flow |-> 60]>>

\* C4 witness: the report of the example, a revenue-only date followed by a
\* cost-only date.
C4_Witness ==
    /\ FinancialReported
    /\ \E d \in Days :
          /\ sales_df = <<[date |-> d, revenue |-> 100]>>
          /\ purchase_df = <<[date |-> d + 1, costs |-> 40]>>
    /\ Len(financial_df) = 2

\* the completed sales of the requested window and of the window of the same
\* length that precedes it
RequestedWindowSales ==
    {s \in sales : /\ s.payment_status = "COMPLETED"
                   /\ TsGe(s.created_at, start_date)
                   /\ TsLe(s.created_at, end_date)}

PrecedingWindowSales ==
    {s \in sales : /\ s.payment_status = "COMPLETED"
                   /\ TsGe(s.created_at, start_date - (end_date - start_date))
                   /\ TsLt(s.created_at, start_date)}

ExpectedGrowth(current, previous) ==
    IF previous > 0 THEN [num |-> (current - previous) * 100, den |-> previous]
    ELSE [num |-> 0, den |-> 1]

\* C5 (as claimed): for every request that succeeds, growth_rate is
\* (current_total - previous_total) / previous_total * 100 when the previous
\* total is > 0 and 0 otherwise, also when the current window has no completed
\* sales and the previous window has positive revenue.
C5_GrowthRateFormula ==
    Reported("sales") =>
        RatEq(responses[1].body.growth_rate,
              ExpectedGrowth(SumField(RequestedWindowSales, "total"),
                             SumField(PrecedingWindowSales, "total")))

\* C5 (amended): when the requested window has at least one completed sale,
\* growth_rate is (current_total - previous_total) / previous_total * 100 for a
\* previous total > 0 and 0 otherwise; when it has none, growth_rate is 0
\* whatever the previous revenue.
C5_GrowthRateFormulaNonEmpty ==
    Reported("sales") =>
        /\ responses[1].body.growth_rate.den # 0
        /\ IF RequestedWindowSales = {}
           THEN responses[1].body.growth_rate.num = 0
           ELSE RatEq(responses[1].body.growth_rate,
                      ExpectedGrowth(SumField(RequestedWindowSales, "total"),
                                     SumField(PrecedingWindowSales, "total")))

\* C5 witness: a report with sales in both windows and a non-zero growth.
C5_Witness ==
    /\ SalesReported
    /\ PrecedingWindowSales # {}
    /\ responses[1].body.growth_rate.num > 0

\* the second query has been prepared: prev_start and prev_end are set
PreviousWindowSet == endpoint = "sales" /\ df # {}

\* every instant from the day before the previous window to the day after the
\* current one, as a completed sale made at that instant
ProbeSales ==
    [created_at : [date : (prev_start - 1)..(end_date + 1), tod : TimesOfDay],
     total : {1}, customer_id : {"c1"}, user_id : {"u1"}, payment_method : {"CASH"},
     payment_status : {"COMPLETED"}]

\* C6: for start_date <= end_date the previous window has the length of the
\* current one, ends at the instant the current one begins and is disjoint
\* from it: no sale instant is counted in both totals, and none between the
\* start of the previous window and the end of the current one in neither.
C6_PreviousWindowAdjacent ==
    (PreviousWindowSet /\ start_date <= end_date) =>
        /\ prev_end - prev_start = end_date - start_date
        /\ prev_end = start_date
        /\ \A s \in ProbeSales \cup sales :
              /\ ~(CurrentWhere(s, start_date, end_date)
                   /\ PreviousWhere(s, prev_start, prev_end))
              /\ (/\ s.payment_status = "COMPLETED"
                  /\ TsGe(s.created_at, prev_start)
                  /\ TsLe(s.created_at, end_date))
                 => (CurrentWhere(s, start_date, end_date)
                     \/ PreviousWhere(s, prev_start, prev_end))

\* C6 witness: a window of one day or more with a completed sale at the very
\* instant it begins, and one in the previous window.
C6_Witness ==
    /\ PreviousWindowSet
    /\ start_date < end_date
    /\ \E s \in sales :
          /\ s.created_at = [date |-> start_date, tod |-> 0]
          /\ s.payment_status = "COMPLETED"
    /\ \E s \in sales : PreviousWhere(s, prev_start, prev_end)

\* two dates fall in the same bucket: the same calendar day, the same
\* Sunday-to-Saturday week, or the same month of the same year
SameBucket(gb, d1, d2) ==
    IF gb = "week" THEN d1 \div 7 = d2 \div 7
    ELSE IF gb = "month" THEN YearOf(d1) = YearOf(d2) /\ MonthOf(d1) = MonthOf(d2)
    ELSE d1 = d2

\* C7: for each granularity two sale dates get the same period key if and
\* only if they fall in the same bucket: the same calendar day, the same
\* calendar week (also a week that spans a year boundary) or the same month.
C7_SameKeyIffSameBucket ==
    SalesReported =>
        \A r1 \in df, r2 \in df :
            (r1.period = r2.period) <=> SameBucket(group_by, r1.sale_date, r2.sale_date)

\* C8: for every period row, unique_customers is the number of distinct
\* customer_id values among the completed sales of the period and
\* transaction_count the number of those sales.
C8_UniqueCustomersPerPeriod ==
    SalesReported =>
        \A p \in period_stats :
            LET records == {s \in RequestedWindowSales :
                               PeriodKey(group_by, s.created_at.date) = p.period}
            IN  /\ p.transaction_count = Cardinality(records)
                /\ p.unique_customers = Cardinality({s.customer_id : s \in records})

\* C9: a malformed date or a failing store call ends the request with a single
\* failure response that carries an error message; no response with analytics
\* fields is returned for such a request.
C9_FailureGivesSingleErrorResponse ==
    /\ Len(responses) <= 1
    /\ failed \in {"ValueError", "DatabaseError"} =>
          /\ pc = "done"
          /\ Len(responses) = 1
          /\ responses[1].status = 500
          /\ DOMAIN responses[1].body = {"error"}

\* C9 witness: the second query of sales_analytics raised.
C9_Witness ==
    /\ endpoint = "sales"
    /\ failed = "DatabaseError"
    /\ df # {}
    /\ Len(responses) = 1

\* C10: no computation divides by zero: turnover_ratio is 0 when the mean
\* current_stock is 0 and total_sold / mean(current_stock) otherwise,
\* growth_rate is 0 when the previous revenue is 0, profit_margin is 0 when
\* total_revenue is 0, and each of these requests returns a normal response.
C10_NoDivisionByZero ==
    /\ failed # "ZeroDivisionError"
    /\ InventoryReported =>
          LET stock == SumColumn(df, "current_stock")
              turnover == responses[1].body.turnover_ratio
          IN  /\ responses[1].status = 200
              /\ turnover.den # 0
              /\ IF stock = 0 THEN turnover.num = 0
                 ELSE RatEq(turnover, [num |-> SumColumn(df, "total_sold") * Len(df),
                                       den |-> stock])
    /\ SalesReported =>
          /\ responses[1].status = 200
          /\ responses[1].body.growth_rate.den # 0
          /\ prev_revenue = 0 => responses[1].body.growth_rate.num = 0
    /\ FinancialReported =>
          /\ responses[1].status = 200
          /\ responses[1].body.profit_margin.den # 0
          /\ responses[1].body.total_revenue = 0 =>
                responses[1].body.profit_margin.num = 0

\* C10 witness: an inventory report over products that all have no stock and
\* of which some were sold.
C10_Witness ==
    /\ InventoryReported
    /\ SumColumn(df, "current_stock") = 0
    /\ SumColumn(df, "total_sold") > 0
    /\ responses[1].status = 200

====
